---------------------------- MODULE Spec2Model ----------------------------
(***************************************************************************)
(* Model of forensic_parser.py: the line parser                            *)
(* (parse_logs_from_directory) and the correlation engine                  *)
(* (custom_anomaly_detection).                                             *)
(*                                                                         *)
(* Text is modelled by TLA+ strings, handled character by character with   *)
(* Len, SubSeq and \o.  A DataFrame is the sequence of its rows; a frame   *)
(* built from no rows has no columns.  A datetime is the number of seconds *)
(* its naive wall-clock reading is away from 1970-01-01 00:00:00.          *)
(***************************************************************************)
EXTENDS Integers, Sequences, FiniteSets, TLC

VARIABLES
    pc,         \* "parsing" | "parsed" | "failed": where the batch run is
    tz,         \* the machine's local UTC offset in seconds (datetime.fromtimestamp)
    sortkind,   \* how this build's sort_values(kind='quicksort') orders equal keys
    entries,    \* parse_logs_from_directory: the list `entries`
    last,       \* the latest iteration of the line loop: the line and what it gave
    parsed,     \* the rows of the frame as parse_logs_from_directory returned it
    df,         \* the rows of the caller's frame (custom_anomaly_detection changes it)
    scanned,    \* custom_anomaly_detection: user -> the `logs` the latest call scanned
    results,    \* the anomaly list of each completed call, in call order
    raised      \* the exception that ended the run, or "none"

vars == <<pc, tz, sortkind, entries, last, parsed, df, scanned, results, raised>>

----------------------------------------------------------------------------
(* Bounds of the model *)

MaxLines == 3
MaxWindowLines == 7
MaxTimeLines == 3
MaxOrderLines == 4
MaxArrowLines == 2
MaxDeleteLines == 3
MaxRuns == 2

----------------------------------------------------------------------------
(* Text *)

Ch(s, k) == SubSeq(s, k, k)

Min(a, b) == IF a < b THEN a ELSE b

\* Python: sub in s
Contains(sub, s) ==
    \E k \in 1..(Len(s) - Len(sub) + 1) : SubSeq(s, k, k + Len(sub) - 1) = sub

\* Python: s.endswith(suf)
EndsWith(s, suf) ==
    /\ Len(suf) <= Len(s)
    /\ SubSeq(s, Len(s) - Len(suf) + 1, Len(s)) = suf

Whitespace == {" ", "\t", "\n", "\r", "\f"}

\* Python: s.strip()
Strip(s) ==
    LET keep == {k \in 1..Len(s) : Ch(s, k) \notin Whitespace}
    IN  IF keep = {} THEN ""
        ELSE LET lo == CHOOSE k \in keep : \A m \in keep : k <= m
                 hi == CHOOSE k \in keep : \A m \in keep : k >= m
             IN  SubSeq(s, lo, hi)

\* The characters the model uses, in code-point order (Python compares str by
\* code point).
CodePoints ==
    " !#$%&'()*+,-./0123456789:;<=>?@ABCDEFGHIJKLMNOPQRSTUVWXYZ[]^_abcdefghijklmnopqrstuvwxyz{|}~"

Code(c) == CHOOSE k \in 1..Len(CodePoints) : Ch(CodePoints, k) = c

\* Python: a < b on str
StrLess(a, b) ==
    \E k \in 1..(Min(Len(a), Len(b)) + 1) :
        /\ SubSeq(a, 1, k - 1) = SubSeq(b, 1, k - 1)
        /\ \/ k = Len(a) + 1 /\ k <= Len(b)
           \/ k <= Len(a) /\ k <= Len(b) /\ Code(Ch(a, k)) < Code(Ch(b, k))

Digits == "0123456789"

DigitVal(c) == (CHOOSE k \in 1..10 : Ch(Digits, k) = c) - 1

\* Python: int(s) on a string of decimal digits
RECURSIVE ToInt(_)
ToInt(s) ==
    IF Len(s) = 0 THEN 0
    ELSE 10 * ToInt(SubSeq(s, 1, Len(s) - 1)) + DigitVal(Ch(s, Len(s)))

----------------------------------------------------------------------------
(* The pattern of parse_logs_from_directory, matched as re.match does:     *)
(* anchored at the start, each group greedy, backtracking where a shorter  *)
(* group lets the rest match.                                              *)

IsHex(c) == Contains(c, "0123456789abcdefABCDEF") /\ Len(c) = 1
IsDigit(c) == Contains(c, Digits) /\ Len(c) = 1
NotBang(c) == c # "!"
NotUnderscore(c) == c # "_"
NotColon(c) == c # ":"
NotEquals(c) == c # "="
IsEquals(c) == c = "="
NotNewline(c) == c # "\n"

\* Whether the character c is of the class cls of the pattern.
InClass(c, cls) ==
    CASE cls = "[0-9a-fA-F]" -> IsHex(c)
      [] cls = "\\d" -> IsDigit(c)
      [] cls = "[^!]" -> NotBang(c)
      [] cls = "[^_]" -> NotUnderscore(c)
      [] cls = "[^:]" -> NotColon(c)
      [] cls = "[^=]" -> NotEquals(c)
      [] cls = "=" -> IsEquals(c)
      [] cls = "." -> NotNewline(c)

\* The last index of the longest run of characters of class cls that starts at k
\* (k - 1 when it is empty).
RunEnd(s, k, cls) ==
    CHOOSE e \in (k - 1)..Len(s) :
        /\ \A m \in k..e : InClass(Ch(s, m), cls)
        /\ e = Len(s) \/ ~InClass(Ch(s, e + 1), cls)

\* Whether the literal lit stands at index k of s.
At(s, k, lit) ==
    /\ k + Len(lit) - 1 <= Len(s)
    /\ SubSeq(s, k, k + Len(lit) - 1) = lit

NoMatch == [ok |-> FALSE]

\* Mutation: (?P<target>.*), a target that may be empty.
TargetMayBeEmpty(s, k) == k <= Len(s) + 1

\* (?P<target>.+) at index k: at least one character, none of them a newline.
TargetOk(s, k) == k <= Len(s) /\ NotNewline(Ch(s, k))

\* The ends a of the actor group [^=]+ starting at k for which =*>(target) matches
\* behind it; run is the end of the longest run without "=".
ActorEnds(s, k, run) ==
    {a \in k..run :
        LET q == RunEnd(s, a + 1, "=")
        IN  At(s, q + 1, ">") /\ TargetOk(s, q + 2)}

\* pattern.match(s).groupdict(), or NoMatch when pattern.match(s) is None
Match(s) ==
    IF ~At(s, 1, "0x") THEN NoMatch ELSE
    LET h == RunEnd(s, 3, "[0-9a-fA-F]") IN
    IF h < 3 \/ ~At(s, h + 1, "[ts:") THEN NoMatch ELSE
    LET d0 == h + 5
        d  == RunEnd(s, d0, "\\d") IN
    IF d < d0 \/ ~At(s, d + 1, "]|EVNT:") THEN NoMatch ELSE
    LET e0 == d + 8
        e  == RunEnd(s, e0, "[^!]") IN
    IF e < e0 \/ ~At(s, e + 1, "!@") THEN NoMatch ELSE
    LET a0 == e + 3
        a  == RunEnd(s, a0, "[^_]") IN
    IF a < a0 \/ ~At(s, a + 1, "_") THEN NoMatch ELSE
    LET t0 == a + 2
        t  == RunEnd(s, t0, "[^:]") IN
    IF t < t0 \/ ~At(s, t + 1, ":") THEN NoMatch ELSE
    LET u0   == t + 2
        run  == RunEnd(s, u0, "[^=]")
        ends == ActorEnds(s, u0, run) IN
    IF ends = {} THEN NoMatch ELSE
    LET u == CHOOSE x \in ends : \A y \in ends : y <= x
        q == RunEnd(s, u + 1, "=")
    IN  [ok         |-> TRUE,
         log_id     |-> SubSeq(s, 1, h),
         timestamp  |-> SubSeq(s, d0, d),
         event_type |-> SubSeq(s, e0, e),
         action     |-> SubSeq(s, a0, a),
         actor_type |-> SubSeq(s, t0, t),
         actor      |-> SubSeq(s, u0, u),
         target     |-> SubSeq(s, q + 2, RunEnd(s, q + 2, "."))]

----------------------------------------------------------------------------
(* parse_logs_from_directory *)

\* datetime.fromtimestamp(ts): the local wall-clock reading of ts
FromTimestamp(ts) == ts + tz

\* The dict appended to `entries` for a matching line of file fname.
Entry(m, fname) ==
    [log_id     |-> m.log_id,
     timestamp  |-> ToInt(m.timestamp),
     event_type |-> m.event_type,
     action     |-> m.action,
     actor_type |-> m.actor_type,
     actor      |-> m.actor,
     target     |-> m.target,
     file       |-> fname,
     datetime   |-> FromTimestamp(ToInt(m.timestamp))]

NoLine == [n |-> 0, line |-> "", matched |-> FALSE]

\* One iteration of `for line in f`: the file fname gives the next line.
ParseLine(fname, line, max) ==
    /\ pc = "parsing"
    /\ last.n < max
    /\ LET m == Match(Strip(line))
       IN  /\ entries' = IF m.ok THEN Append(entries, Entry(m, fname)) ELSE entries
           /\ last' = [n |-> last.n + 1, line |-> line, matched |-> m.ok]
    /\ UNCHANGED <<pc, tz, sortkind, parsed, df, scanned, results, raised>>

\* The columns of pd.DataFrame(rows): the keys of the dicts, none for no dict.
Columns(rows) ==
    IF rows = <<>> THEN {}
    ELSE {"log_id", "timestamp", "event_type", "action", "actor_type", "actor",
          "target", "file", "datetime"}

\* return pd.DataFrame(entries), and main's df = parse_logs_from_directory(...)
ParseReturn ==
    /\ pc = "parsing"
    /\ pc' = "parsed"
    /\ parsed' = entries
    /\ df' = entries
    /\ last' = NoLine
    /\ UNCHANGED <<tz, sortkind, entries, scanned, results, raised>>

----------------------------------------------------------------------------
(* custom_anomaly_detection *)

\* pd.to_datetime(ts, unit='s'): the UTC wall-clock reading of ts
ToDatetime(ts) == ts

\* df['datetime'] = pd.to_datetime(df['timestamp'], unit='s')
SetDatetime(rows) ==
    [k \in 1..Len(rows) |-> [rows[k] EXCEPT !.datetime = ToDatetime(rows[k].timestamp)]]

\* sort_values is called without kind=, so with kind='quicksort', which pandas
\* documents as not stable: it leaves the rows ascending by key, and where rows
\* of equal key end up is up to the build's sort.  A build's sort is a function
\* of the rows it is given; the model takes two such functions, one that keeps
\* rows of equal key in their order and one that moves the first of them last.
SortKinds == {"stable", "rotated"}

\* x put into the ascending s, behind the rows of equal key.
Insert(x, s) ==
    LET p == Cardinality({k \in 1..Len(s) : s[k].datetime <= x.datetime})
    IN  SubSeq(s, 1, p) \o <<x>> \o SubSeq(s, p + 1, Len(s))

RECURSIVE StableSort(_)
StableSort(rows) ==
    IF rows = <<>> THEN <<>>
    ELSE Insert(rows[Len(rows)], StableSort(SubSeq(rows, 1, Len(rows) - 1)))

\* In the ascending s, each run of rows of equal key with its first row moved last.
RotateTies(s) ==
    [k \in 1..Len(s) |->
        IF k < Len(s) /\ s[k + 1].datetime = s[k].datetime
        THEN s[k + 1]
        ELSE s[CHOOSE m \in 1..k :
                 /\ s[m].datetime = s[k].datetime
                 /\ \A n \in 1..k : s[n].datetime = s[k].datetime => m <= n]]

SortRows(rows, kind) ==
    IF kind = "stable" THEN StableSort(rows) ELSE RotateTies(StableSort(rows))

\* rows.sort_values(by='datetime')
SortValues(rows) == SortRows(rows, sortkind)

\* The keys of df.groupby('actor'), in its iteration order: sorted.
RECURSIVE SortedKeys(_)
SortedKeys(S) ==
    IF S = {} THEN <<>>
    ELSE LET least == CHOOSE a \in S : \A b \in S \ {a} : StrLess(a, b)
         IN  <<least>> \o SortedKeys(S \ {least})

GroupKeys(rows) == SortedKeys({rows[k].actor : k \in 1..Len(rows)})

\* Mutation: the group is not cut down to the user's rows.
IsActorAny(r, user) == r.actor = r.actor

IsActor(r, user) == r.actor = user

\* The group of user: its rows, in the frame's order.
Group(rows, user) == SelectSeq(rows, LAMBDA r : IsActor(r, user))

\* logs = logs.sort_values(by='datetime').reset_index(drop=True)
Logs(rows, user) == SortValues(Group(rows, user))

\* logs.loc[i]: the row with index label i, counted from 0
Loc(logs, i) == logs[i + 1]

\* Python: range(a, b)
Range(a, b) == [k \in 1..(b - a) |-> a + k - 1]

\* strftime("%Y-%m-%d %H:%M:%S"): day number, hour, minute, second
Strftime(d) ==
    <<d \div 86400, (d % 86400) \div 3600, (d % 3600) \div 60, d % 60>>

LogText(row) ==
    row.event_type \o "!@" \o row.action \o "_" \o row.actor_type \o ":"
        \o row.actor \o "=>" \o row.target

\* An appended dict.  i and j are not keys of it: they record the loop indices
\* it was appended at (j = i for the rules without a window).
Anomaly(user, i, j, at, reason, details, kind, severity) ==
    [timestamp   |-> Strftime(at.datetime),
     user        |-> user,
     reason      |-> reason,
     details     |-> details,
     ip_address  |-> "N/A",
     action_type |-> kind,
     severity    |-> severity,
     log_source  |-> at.file,
     i           |-> i,
     j           |-> j]

WindowSpan == 6
ShadowDeleteSeconds == 600

\* Mutation: a window of one row more.
WindowWider(i, n) == Range(i + 1, Min(i + WindowSpan + 1, n))

\* range(i+1, min(i+6, len(logs)))
Window(i, n) == Range(i + 1, Min(i + WindowSpan, n))

\* Mutation: < 600 for <= 600.
WithinLimitStrict(later, curr_time) == later - curr_time < ShadowDeleteSeconds

\* (logs.loc[j, 'datetime'] - curr_time).total_seconds() <= 600
WithinLimit(later, curr_time) == later - curr_time <= ShadowDeleteSeconds

\* Rule 1: Shadow Load followed by Delete
Rule1(logs, user, i) ==
    LET row == Loc(logs, i)
        hit(j) == /\ Contains("DEL", Loc(logs, j).action)
                  /\ WithinLimit(Loc(logs, j).datetime, row.datetime)
        js == SelectSeq(Window(i, Len(logs)), hit)
    IN  IF Contains("SHD", row.action)
        THEN [k \in 1..Len(js) |->
                Anomaly(user, i, js[k], Loc(logs, js[k]),
                        "Shadow load followed by process delete",
                        LogText(row) \o " -> " \o Loc(logs, js[k]).target,
                        "Delete", "High")]
        ELSE <<>>

\* Rule 2: Create followed by Delete of same file
Rule2(logs, user, i) ==
    LET row == Loc(logs, i)
        created_path == row.target
        hit(j) == /\ Contains("DEL", Loc(logs, j).action)
                  /\ Contains(created_path, Loc(logs, j).target)
        js == SelectSeq(Window(i, Len(logs)), hit)
    IN  IF Contains("CRE", row.action)
        THEN [k \in 1..Len(js) |->
                Anomaly(user, i, js[k], Loc(logs, js[k]),
                        "Created then deleted same file",
                        LogText(row) \o " -> " \o Loc(logs, js[k]).target,
                        "Delete", "Medium")]
        ELSE <<>>

suspicious_binaries == {"/bin/xz", "/bin/nc", "/usr/bin/python3", "/usr/bin/perl"}

\* Rule 3: Suspicious binary executed
Rule3(logs, user, i) ==
    LET row == Loc(logs, i)
    IN  IF /\ Contains("RUN", row.action)
           /\ \E b \in suspicious_binaries : Contains(b, row.target)
        THEN <<Anomaly(user, i, i, row, "Suspicious binary executed",
                       LogText(row), "Execute", "High")>>
        ELSE <<>>

DeleteExtensions == {".exe", ".bin", ".out", ".so"}
DeletePaths == {"/bin/", "/tmp/", "/sbin/", "/usr/local/bin/"}

\* Mutation: and for or.
SuspiciousPathBoth(path) ==
    /\ \E e \in DeleteExtensions : EndsWith(path, e)
    /\ \E p \in DeletePaths : Contains(p, path)

\* path.endswith((...)) or any(p in path for p in [...])
SuspiciousPath(path) ==
    \/ \E e \in DeleteExtensions : EndsWith(path, e)
    \/ \E p \in DeletePaths : Contains(p, path)

\* Rule 4: Deleted a suspicious binary
Rule4(logs, user, i) ==
    LET row == Loc(logs, i)
    IN  IF Contains("DEL", row.action) /\ SuspiciousPath(row.target)
        THEN <<Anomaly(user, i, i, row, "Deleted binary/suspicious executable file",
                       LogText(row), "Delete", "High")>>
        ELSE <<>>

\* Mutation: Rule 4 evaluated before Rule 3.
RowAnomaliesRule4Early(logs, user, i) ==
    Rule1(logs, user, i) \o Rule2(logs, user, i)
        \o Rule4(logs, user, i) \o Rule3(logs, user, i)

\* The body of `for i, row in logs.iterrows()`: what row i appends.
RowAnomalies(logs, user, i) ==
    Rule1(logs, user, i) \o Rule2(logs, user, i)
        \o Rule3(logs, user, i) \o Rule4(logs, user, i)

RECURSIVE UserAnomaliesFrom(_, _, _)
UserAnomaliesFrom(logs, user, i) ==
    IF i >= Len(logs) THEN <<>>
    ELSE RowAnomalies(logs, user, i) \o UserAnomaliesFrom(logs, user, i + 1)

\* What the rows of one group append.
UserAnomalies(rows, user) == UserAnomaliesFrom(Logs(rows, user), user, 0)

RECURSIVE AnomaliesOf(_, _)
AnomaliesOf(rows, keys) ==
    IF keys = <<>> THEN <<>>
    ELSE UserAnomalies(rows, Head(keys)) \o AnomaliesOf(rows, Tail(keys))

\* `for user, logs in grouped`: the list `anomalies` after the loop.
Anomalies(rows) == AnomaliesOf(rows, GroupKeys(rows))

\* One call custom_anomaly_detection(df) on the caller's frame.  A further call
\* is a caller running the detection again on the frame it passed before.
Detect ==
    /\ pc = "parsed"
    /\ Len(results) < MaxRuns
    /\ IF "timestamp" \notin Columns(df)
       THEN \* df['timestamp'] raises KeyError; nothing catches it
            /\ pc' = "failed"
            /\ raised' = "KeyError"
            /\ UNCHANGED <<df, scanned, results>>
       ELSE LET sorted == SortValues(SetDatetime(df))
            IN  /\ df' = sorted
                /\ scanned' = [u \in {sorted[k].actor : k \in 1..Len(sorted)} |->
                                  Logs(sorted, u)]
                /\ results' = Append(results, Anomalies(sorted))
                /\ UNCHANGED <<pc, raised>>
    /\ UNCHANGED <<tz, sortkind, entries, last, parsed>>

----------------------------------------------------------------------------
(* The batch run: main parses the files of the directory, then detects.    *)

UtcOffsets == {0, 3600}

Init ==
    /\ pc = "parsing"
    /\ tz \in UtcOffsets
    /\ sortkind \in SortKinds
    /\ entries = <<>>
    /\ last = NoLine
    /\ parsed = <<>>
    /\ df = <<>>
    /\ scanned = <<>>
    /\ results = <<>>
    /\ raised = "none"

\* A line as the file iteration gives it: the text of a record and its line end.
Line(ts, action, actor, target) ==
    "0x1f[ts:" \o ts \o "]|EVNT:FS!@" \o action \o "_USR:" \o actor \o "=>"
        \o target \o "\n"

\* The lines of the general batch: two actors over two files, equal and unordered
\* timestamps, and a line that is no record.
BatchLines ==
    {<<"a.vlog", Line("100", "SHD", "al", "lib")>>,
     <<"a.vlog", Line("100", "DEL", "al", "/tmp/a")>>,
     <<"b.vlog", Line("100", "DEL", "bo", "/tmp/a/b")>>,
     <<"b.vlog", Line("50", "CRE", "bo", "/tmp/a")>>,
     <<"b.vlog", Line("50", "SHD", "al", "/tmp")>>,
     <<"a.vlog", Line("100", "RUN", "bo", "/bin/nc -l")>>,
     <<"a.vlog", "# rotated\n">>}

Next ==
    \/ \E in \in BatchLines : ParseLine(in[1], in[2], MaxLines)
    \/ ParseReturn
    \/ Detect

Spec == Init /\ [][Next]_vars

\* One actor's batch long enough for a row beyond the window of another.
WindowLines ==
    {<<"a.vlog", Line("100", "SHD", "al", "lib")>>,
     <<"a.vlog", Line("100", "CRE", "al", "f")>>,
     <<"a.vlog", Line("100", "DEL", "al", "f")>>}

NextWindow ==
    \/ \E in \in WindowLines : ParseLine(in[1], in[2], MaxWindowLines)
    \/ ParseReturn
    \/ Detect

SpecWindow == Init /\ [][NextWindow]_vars

\* Shadow loads and deletes 599 to 601 seconds apart.
TimeLines ==
    {<<"a.vlog", Line("0", "SHD", "al", "lib")>>,
     <<"a.vlog", Line("1", "xSHDx", "al", "lib")>>,
     <<"a.vlog", Line("600", "DEL", "al", "doc")>>,
     <<"b.vlog", Line("601", "xDELx", "al", "doc")>>,
     <<"b.vlog", Line("601", "RUN", "al", "doc")>>}

NextTime ==
    \/ \E in \in TimeLines : ParseLine(in[1], in[2], MaxTimeLines)
    \/ ParseReturn
    \/ Detect

SpecTime == Init /\ [][NextTime]_vars

\* Rows that fire several rules, for several later rows, of two actors.
OrderLines ==
    {<<"a.vlog", Line("100", "SHDCRE", "bo", "/tmp/a")>>,
     <<"a.vlog", Line("100", "DEL", "bo", "/tmp/a")>>,
     <<"b.vlog", Line("100", "RUNDEL", "al", "/bin/nc")>>,
     <<"b.vlog", Line("100", "SHD", "al", "lib")>>}

NextOrder ==
    \/ \E in \in OrderLines : ParseLine(in[1], in[2], MaxOrderLines)
    \/ ParseReturn
    \/ Detect

SpecOrder == Init /\ [][NextOrder]_vars

\* Deletes of targets that match an extension, a path, both or neither.
DeleteLines ==
    {<<"a.vlog", Line("100", "DEL", "al", "/usr/local/bin/tool.so")>>,
     <<"a.vlog", Line("100", "DEL", "al", "x.so")>>,
     <<"a.vlog", Line("100", "xDELx", "al", "/tmp/x")>>,
     <<"a.vlog", Line("100", "DEL", "al", "notes.txt")>>,
     <<"b.vlog", Line("100", "RUN", "al", "/tmp/x.so")>>,
     <<"b.vlog", Line("100", "DEL", "bo", "/sbin/init.bin")>>}

NextDelete ==
    \/ \E in \in DeleteLines : ParseLine(in[1], in[2], MaxDeleteLines)
    \/ ParseReturn
    \/ Detect

SpecDelete == Init /\ [][NextDelete]_vars

\* Lines around the arrow and the target: a record, records that end right
\* after the arrow, an arrow without "=", a ">" inside the actor, no record.
ArrowLines ==
    {<<"a.vlog", Line("100", "DEL", "bob", "/tmp/a")>>,
     <<"a.vlog", Line("100", "DEL", "bob", "")>>,
     <<"a.vlog", Line("100", "DEL", "bob", "  ")>>,
     <<"a.vlog", "  0x1f[ts:100]|EVNT:FS!@DEL_USR:bob>x \n">>,
     <<"b.vlog", Line("100", "DEL", "a>b", "")>>,
     <<"b.vlog", "0x1f[ts:100]|EVNT:FS!@DEL_USR:bob===>">>,
     <<"b.vlog", "# rotated\n">>}

NextParse ==
    \/ \E in \in ArrowLines : ParseLine(in[1], in[2], MaxArrowLines)
    \/ ParseReturn
    \/ Detect

SpecParse == Init /\ [][NextParse]_vars

----------------------------------------------------------------------------
(* What the claims speak of *)

\* The anomalies the latest completed call returned.
Returned == results[Len(results)]

\* An anomaly as the caller sees it: the keys of the dict.
Visible(a) ==
    [timestamp |-> a.timestamp, user |-> a.user, reason |-> a.reason,
     details |-> a.details, ip_address |-> a.ip_address,
     action_type |-> a.action_type, severity |-> a.severity,
     log_source |-> a.log_source]

VisibleList(as) == [k \in 1..Len(as) |-> Visible(as[k])]

\* A row without its derived datetime.
Event(r) == [r EXCEPT !.datetime = 0]

\* logs holds the rows of arrival in ascending timestamp order, rows of equal
\* timestamp in their order of arrival.
StableOrderOf(arrival, logs) ==
    /\ Len(logs) = Len(arrival)
    /\ \E p \in [1..Len(arrival) -> 1..Len(arrival)] :
          /\ \A k \in 1..Len(logs) : Event(logs[k]) = Event(arrival[p[k]])
          /\ \A k, l \in 1..Len(logs) :
                k < l => \/ arrival[p[k]].timestamp < arrival[p[l]].timestamp
                         \/ /\ arrival[p[k]].timestamp = arrival[p[l]].timestamp
                            /\ p[k] < p[l]

\* C1: detection on the empty event collection (a parse that matched no line)
\* returns an empty anomaly collection and raises no exception.
C1_EmptyBatchNoException ==
    (pc # "parsing" /\ parsed = <<>>) =>
        /\ raised = "none"
        /\ \A k \in 1..Len(results) : results[k] = <<>>

\* C2: a second detection run on the collection already passed to a first run
\* returns the same anomalies in the same order as the first.
C2_SecondRunSame ==
    Len(results) >= 2 => VisibleList(results[2]) = VisibleList(results[1])

\* C5: every anomaly of actor A is built from a trigger event and a terminal
\* event of actor A only, however the actors' events interleave in the batch.
C5_AnomalyOfOneActor ==
    Len(results) >= 1 =>
        \A k \in 1..Len(Returned) :
            LET a == Returned[k] IN
            /\ a.user \in DOMAIN scanned
            /\ a.i < Len(scanned[a.user]) /\ a.j < Len(scanned[a.user])
            /\ LET trigger  == Loc(scanned[a.user], a.i)
                   terminal == Loc(scanned[a.user], a.j)
               IN  /\ trigger.actor = a.user
                   /\ terminal.actor = a.user
                   /\ SubSeq(a.details, 1, Len(LogText(trigger))) = LogText(trigger)
                   /\ a.log_source = terminal.file
                   /\ a.timestamp = Strftime(terminal.datetime)

\* C5 witness: al's delete follows al's shadow load with bo's delete arriving in
\* between, from another file, at the same timestamp; al's anomaly is returned.
C5_Witness ==
    /\ Len(results) >= 1
    /\ Len(parsed) = 3
    /\ parsed[1].actor = "al" /\ Contains("SHD", parsed[1].action)
    /\ parsed[2].actor = "bo" /\ Contains("DEL", parsed[2].action)
    /\ parsed[3].actor = "al" /\ Contains("DEL", parsed[3].action)
    /\ parsed[2].file # parsed[3].file
    /\ parsed[2].timestamp = parsed[3].timestamp
    /\ \E k \in 1..Len(Returned) :
          /\ Returned[k].user = "al"
          /\ Returned[k].reason = "Shadow load followed by process delete"

\* C6: the per-actor sequence the engine scans is ascending by timestamp, and
\* events of equal timestamp keep their order of arrival.
C6_ScannedStableAscending ==
    Len(results) = 1 =>
        \A u \in DOMAIN scanned : StableOrderOf(Group(parsed, u), scanned[u])

\* C7: detection leaves the caller's event collection as it was: the same order
\* and the same field values, datetime included.
C7_FrameUnchanged ==
    Len(results) >= 1 => df = parsed

----------------------------------------------------------------------------
(* The rules' claims *)

Rule1Reason == "Shadow load followed by process delete"
Rule2Reason == "Created then deleted same file"
Rule3Reason == "Suspicious binary executed"
Rule4Reason == "Deleted binary/suspicious executable file"

\* The returned anomalies of reason that user's row i appended for row j.
Appended(reason, user, i, j) ==
    {k \in 1..Len(Returned) :
        /\ Returned[k].reason = reason /\ Returned[k].user = user
        /\ Returned[k].i = i /\ Returned[k].j = j}

\* C3: Rule 1 and Rule 2 append anomalies for a trigger i (an action with "SHD",
\* with "CRE") only for the rows j with i+1 <= j <= min(i+5, len-1); a delete at
\* i+6 or later gives none.
C3_WindowOfFive ==
    Len(results) >= 1 =>
        \A k \in 1..Len(Returned) :
            LET a == Returned[k] IN
            a.reason \in {Rule1Reason, Rule2Reason} =>
                /\ a.i + 1 <= a.j
                /\ a.j <= Min(a.i + 5, Len(scanned[a.user]) - 1)
                /\ Contains(IF a.reason = Rule1Reason THEN "SHD" ELSE "CRE",
                            Loc(scanned[a.user], a.i).action)
                /\ Contains("DEL", Loc(scanned[a.user], a.j).action)

\* C3 witness: a shadow load at row 0 with deletes at rows 5 and 6; the delete at
\* row 5 gave a Rule 1 anomaly.
C3_Witness ==
    /\ Len(results) >= 1
    /\ "al" \in DOMAIN scanned
    /\ Len(scanned["al"]) >= 7
    /\ Contains("SHD", Loc(scanned["al"], 0).action)
    /\ Contains("DEL", Loc(scanned["al"], 5).action)
    /\ Contains("DEL", Loc(scanned["al"], 6).action)
    /\ Appended(Rule1Reason, "al", 0, 5) # {}
    /\ Appended(Rule1Reason, "al", 0, 6) = {}

\* C4: for a shadow load at i and a delete at j in its window, Rule 1 appends an
\* anomaly exactly when timestamp[j] - timestamp[i] <= 600: at 600 seconds it
\* does, at 601 it does not.
C4_SixHundredSeconds ==
    Len(results) >= 1 =>
        \A u \in DOMAIN scanned :
            \A i \in 0..(Len(scanned[u]) - 1) :
                \A j \in (i + 1)..Min(i + 5, Len(scanned[u]) - 1) :
                    (/\ Contains("SHD", Loc(scanned[u], i).action)
                     /\ Contains("DEL", Loc(scanned[u], j).action))
                    => /\ Cardinality(Appended(Rule1Reason, u, i, j)) <= 1
                       /\ Appended(Rule1Reason, u, i, j) # {}
                            <=> Loc(scanned[u], j).timestamp
                                    - Loc(scanned[u], i).timestamp <= 600

\* C4 witness: a shadow load at second 0, a delete at second 600 that gave a
\* Rule 1 anomaly and a delete at second 601 that gave none.
C4_Witness ==
    /\ Len(results) >= 1
    /\ "al" \in DOMAIN scanned
    /\ Len(scanned["al"]) = 3
    /\ Contains("SHD", Loc(scanned["al"], 0).action)
    /\ Loc(scanned["al"], 0).timestamp = 0
    /\ Contains("DEL", Loc(scanned["al"], 1).action)
    /\ Loc(scanned["al"], 1).timestamp = 600
    /\ Contains("DEL", Loc(scanned["al"], 2).action)
    /\ Loc(scanned["al"], 2).timestamp = 601
    /\ Appended(Rule1Reason, "al", 0, 1) # {}
    /\ Appended(Rule1Reason, "al", 0, 2) = {}

\* The line s is a record up to and including its arrow and ends there: with a
\* target put behind it, it is that record with that target.
EndsAfterArrow(s) ==
    /\ EndsWith(s, ">")
    /\ Match(s \o "t").ok
    /\ Match(s \o "t").target = "t"

\* The line s is a record up to and including its arrow, with text behind it.
HasTargetAfterArrow(s) ==
    \E k \in 1..(Len(s) - 1) : EndsAfterArrow(SubSeq(s, 1, k))

Count(c, s) == Cardinality({k \in 1..Len(s) : Ch(s, k) = c})

RuleNumber(reason) ==
    CASE reason = Rule1Reason -> 1
      [] reason = Rule2Reason -> 2
      [] reason = Rule3Reason -> 3
      [] reason = Rule4Reason -> 4

\* a comes before b in (actor enumeration order, i, rule number, j).
Before(a, b) ==
    \/ StrLess(a.user, b.user)
    \/ /\ a.user = b.user
       /\ \/ a.i < b.i
          \/ /\ a.i = b.i
             /\ \/ RuleNumber(a.reason) < RuleNumber(b.reason)
                \/ RuleNumber(a.reason) = RuleNumber(b.reason) /\ a.j < b.j

\* C9: the anomaly list is in one fixed order: by actor in the engine's actor
\* enumeration order (an actor's anomalies contiguous), then by ascending trigger
\* index i, then by rule number 1, 2, 3, 4, then by ascending j.
C9_AppendOrder ==
    Len(results) >= 1 =>
        \A k, l \in 1..Len(Returned) : k < l => Before(Returned[k], Returned[l])

\* C9 witness: anomalies of two actors, two rules fired by one row, one rule
\* fired by one row for two later rows, and a row that fired Rules 3 and 4.
C9_Witness ==
    /\ Len(results) >= 1
    /\ \E k, l \in 1..Len(Returned) : Returned[k].user # Returned[l].user
    /\ \E k, l \in 1..Len(Returned) :
          /\ Returned[k].user = Returned[l].user /\ Returned[k].i = Returned[l].i
          /\ Returned[k].reason = Rule1Reason /\ Returned[l].reason = Rule2Reason
    /\ \E k, l \in 1..Len(Returned) :
          /\ Returned[k].user = Returned[l].user /\ Returned[k].i = Returned[l].i
          /\ Returned[k].reason = Returned[l].reason /\ Returned[k].j # Returned[l].j
    /\ \E k, l \in 1..Len(Returned) :
          /\ Returned[k].user = Returned[l].user /\ Returned[k].i = Returned[l].i
          /\ Returned[k].reason = Rule3Reason /\ Returned[l].reason = Rule4Reason

HasExtension(t) ==
    EndsWith(t, ".exe") \/ EndsWith(t, ".bin") \/ EndsWith(t, ".out") \/ EndsWith(t, ".so")

HasSensitivePath(t) ==
    \/ Contains("/bin/", t) \/ Contains("/tmp/", t)
    \/ Contains("/sbin/", t) \/ Contains("/usr/local/bin/", t)

\* The event's action has "DEL" and its target a Catalog extension or path.
SuspiciousDelete(row) ==
    /\ Contains("DEL", row.action)
    /\ HasExtension(row.target) \/ HasSensitivePath(row.target)

\* C10: Rule 4 appends exactly one High anomaly for each event whose action has
\* "DEL" and whose target ends with a Catalog extension or contains a Catalog
\* path, and none for any other event; both branches at once still give one.
C10_OneRule4PerDelete ==
    Len(results) >= 1 =>
        /\ Cardinality({k \in 1..Len(Returned) : Returned[k].reason = Rule4Reason})
              = Cardinality({k \in 1..Len(parsed) : SuspiciousDelete(parsed[k])})
        /\ \A u \in DOMAIN scanned :
            \A i \in 0..(Len(scanned[u]) - 1) :
                LET row  == Loc(scanned[u], i)
                    hits == {k \in 1..Len(Returned) :
                                /\ Returned[k].reason = Rule4Reason
                                /\ Returned[k].user = u /\ Returned[k].i = i}
                IN  /\ Cardinality(hits) = IF SuspiciousDelete(row) THEN 1 ELSE 0
                    /\ \A k \in hits :
                          /\ Returned[k].severity = "High"
                          /\ Returned[k].details = LogText(row)
                          /\ Returned[k].log_source = row.file

\* C10 witness: three deletes, of a target with an extension only, of one with
\* a path only and of one with both, gave three Rule 4 anomalies.
C10_Witness ==
    /\ Len(results) >= 1
    /\ "al" \in DOMAIN scanned
    /\ Len(scanned["al"]) = 3
    /\ \A i \in 0..2 : Contains("DEL", Loc(scanned["al"], i).action)
    /\ \E i \in 0..2 : LET t == Loc(scanned["al"], i).target
                       IN  HasExtension(t) /\ ~HasSensitivePath(t)
    /\ \E i \in 0..2 : LET t == Loc(scanned["al"], i).target
                       IN  ~HasExtension(t) /\ HasSensitivePath(t)
    /\ \E i \in 0..2 : LET t == Loc(scanned["al"], i).target
                       IN  HasExtension(t) /\ HasSensitivePath(t)
    /\ Cardinality({k \in 1..Len(Returned) : Returned[k].reason = Rule4Reason}) = 3

=============================================================================
